---- MODULE Spec2Model ----
(***************************************************************************)
(* YAB: the import-specifier resolver (shouldAppendJsExtension) and the    *)
(* helpers it is built on, over an explicit POSIX-like filesystem.          *)
(*                                                                         *)
(* Strings are sequences of one-character strings, so that startsWith,     *)
(* endsWith, indexOf, substring, split and concatenation are computed      *)
(* character by character, as the JavaScript code computes them.           *)
(***************************************************************************)
EXTENDS Naturals, Integers, Sequences, FiniteSets, TLC

----------------------------------------------------------------------------
(* String literals of the source, spelled as character sequences. *)

SLASH == <<"/">>
DOT == <<".">>
DOTDOT == <<".", ".">>
DOT_SLASH == <<".", "/">>
DOTDOT_SLASH == <<".", ".", "/">>
SRC_SLASH == <<"s", "r", "c", "/">>
EXT_JS == <<".", "j", "s">>
EXT_TS == <<".", "t", "s">>
EXT_TSX == <<".", "t", "s", "x">>
INDEX_JS == <<"i", "n", "d", "e", "x", ".", "j", "s">>
SLASH_INDEX_JS == <<"/", "i", "n", "d", "e", "x", ".", "j", "s">>
NODE_MODULES == <<"n", "o", "d", "e", "_", "m", "o", "d", "u", "l", "e", "s">>
PACKAGE_JSON == <<"p", "a", "c", "k", "a", "g", "e", ".", "j", "s", "o", "n">>

(* The characters \w matches in the regular expression /^\w/ that occur in *)
(* the model's alphabet (letters and the underscore).                      *)
WordChars ==
  {"a", "b", "c", "d", "e", "g", "i", "j", "k", "l", "m", "n", "o", "p",
   "r", "s", "t", "u", "w", "x", "_"}

----------------------------------------------------------------------------
(* JavaScript String methods. *)

startsWith(s, p) == Len(s) >= Len(p) /\ SubSeq(s, 1, Len(p)) = p

endsWith(s, p) == Len(s) >= Len(p) /\ SubSeq(s, Len(s) - Len(p) + 1, Len(s)) = p

(* String.prototype.indexOf: the 1-based index of the first occurrence, 0 if none *)
(* (JavaScript's 0-based index plus one; JavaScript's -1 is 0 here).       *)
indexOf(s, p) ==
  LET hits == {i \in 1..(Len(s) + 1) :
                 i + Len(p) - 1 <= Len(s) /\ SubSeq(s, i, i + Len(p) - 1) = p}
  IN IF hits = {} THEN 0 ELSE CHOOSE i \in hits : \A j \in hits : i <= j

includes(s, p) == indexOf(s, p) # 0

(* s.substring(0, n), n clamped to [0, s.length] as JavaScript does. *)
substringTo(s, n) ==
  IF n <= 0 THEN <<>> ELSE IF n >= Len(s) THEN s ELSE SubSeq(s, 1, n)

(* s.substring(i) for the 1-based index i. *)
substringFrom(s, i) == SubSeq(s, i, Len(s))

(* s.split('/'): the pieces between the separators; '' gives ['']. *)
RECURSIVE splitFrom(_, _, _)
splitFrom(s, i, cur) ==
  IF i > Len(s) THEN <<cur>>
  ELSE IF s[i] = "/" THEN <<cur>> \o splitFrom(s, i + 1, <<>>)
  ELSE splitFrom(s, i + 1, Append(cur, s[i]))

split(s) == splitFrom(s, 1, <<>>)

(* parts.join('/') *)
RECURSIVE joinSlash(_)
joinSlash(parts) ==
  IF Len(parts) = 0 THEN <<>>
  ELSE IF Len(parts) = 1 THEN parts[1]
  ELSE parts[1] \o SLASH \o joinSlash(Tail(parts))

----------------------------------------------------------------------------
(* node:path (POSIX). *)

(* The working directory of the process, against which path.resolve and    *)
(* the operating system resolve a relative pathname.                       *)
Cwd == <<"/", "w">>

isAbsolute(p) == Len(p) > 0 /\ p[1] = "/"

(* normalizeString: drop '' and '.', let '..' remove the segment before it *)
(* (kept as '..' above the start when allowAboveRoot).                     *)
RECURSIVE normalizeSegments(_, _, _)
normalizeSegments(segs, res, allowAboveRoot) ==
  IF Len(segs) = 0 THEN res
  ELSE LET seg == Head(segs)
           rest == Tail(segs)
       IN IF seg = <<>> \/ seg = DOT
            THEN normalizeSegments(rest, res, allowAboveRoot)
          ELSE IF seg = DOTDOT
            THEN IF Len(res) > 0 /\ res[Len(res)] # DOTDOT
                   THEN normalizeSegments(rest, SubSeq(res, 1, Len(res) - 1), allowAboveRoot)
                 ELSE IF allowAboveRoot
                   THEN normalizeSegments(rest, Append(res, DOTDOT), allowAboveRoot)
                 ELSE normalizeSegments(rest, res, allowAboveRoot)
          ELSE normalizeSegments(rest, Append(res, seg), allowAboveRoot)

(* path.normalize *)
normalize(p) ==
  IF Len(p) = 0 THEN DOT
  ELSE LET abs == isAbsolute(p)
           trailing == p[Len(p)] = "/"
           body == joinSlash(normalizeSegments(split(p), <<>>, ~abs))
       IN IF Len(body) = 0
            THEN (IF abs THEN SLASH ELSE IF trailing THEN DOT_SLASH ELSE DOT)
          ELSE (IF abs THEN SLASH ELSE <<>>) \o body \o (IF trailing THEN SLASH ELSE <<>>)

(* path.join(a, b): the non-empty arguments joined by '/', normalized. *)
join2(a, b) ==
  IF Len(a) = 0 /\ Len(b) = 0 THEN DOT
  ELSE IF Len(a) = 0 THEN normalize(b)
  ELSE IF Len(b) = 0 THEN normalize(a)
  ELSE normalize(a \o SLASH \o b)

(* path.join(a, b, c) *)
join3(a, b, c) ==
  LET args == SelectSeq(<<a, b, c>>, LAMBDA x : Len(x) > 0)
  IN IF Len(args) = 0 THEN DOT ELSE normalize(joinSlash(args))

(* path.dirname: scan from the right for the slash that ends the parent    *)
(* (the 1-based index of that slash, 0 if there is none).                  *)
RECURSIVE dirnameEnd(_, _, _)
dirnameEnd(p, i, matchedSlash) ==
  IF i < 2 THEN 0
  ELSE IF p[i] = "/"
    THEN (IF ~matchedSlash THEN i ELSE dirnameEnd(p, i - 1, TRUE))
  ELSE dirnameEnd(p, i - 1, FALSE)

dirname(p) ==
  IF Len(p) = 0 THEN DOT
  ELSE LET hasRoot == p[1] = "/"
           end == dirnameEnd(p, Len(p), TRUE)
       IN IF end = 0 THEN (IF hasRoot THEN SLASH ELSE DOT)
          ELSE IF hasRoot /\ end = 2 THEN <<"/", "/">>
          ELSE SubSeq(p, 1, end - 1)

(* The segments of path.resolve(p): p if absolute, else the working       *)
(* directory joined with p; normalized, never above the root.              *)
resolveSegments(p) ==
  normalizeSegments(split(IF isAbsolute(p) THEN p ELSE Cwd \o SLASH \o p), <<>>, FALSE)

(* path.resolve(p) *)
resolve(p) == SLASH \o joinSlash(resolveSegments(p))

(* The number of leading segments two resolved paths share. *)
RECURSIVE commonPrefixLen(_, _)
commonPrefixLen(a, b) ==
  IF Len(a) = 0 \/ Len(b) = 0 \/ Head(a) # Head(b) THEN 0
  ELSE 1 + commonPrefixLen(Tail(a), Tail(b))

(* path.relative(from, to): '..' for every segment of from after the       *)
(* common prefix, then what is left of to; '' when they are the same.      *)
relative(from, to) ==
  LET f == resolveSegments(from)
      t == resolveSegments(to)
      n == commonPrefixLen(f, t)
  IN joinSlash([i \in 1..(Len(f) - n) |-> DOTDOT] \o SubSeq(t, n + 1, Len(t)))

----------------------------------------------------------------------------
(* The filesystem: a function from the absolute path of an entry, as the   *)
(* sequence of its segment names, to what the entry is: a directory "dir", *)
(* or a regular file, whose kind says how its text decodes as JSON:        *)
(* "file" (does not decode), "json" (an object without an "exports" key),  *)
(* "json_exports" (an object with an "exports" key). The root <<>> is a    *)
(* directory and is not in the domain.                                     *)

FileKinds == {"file", "json", "json_exports"}

entryAt(fs, segs) ==
  IF segs = <<>> THEN "dir"
  ELSE IF segs \in DOMAIN fs THEN fs[segs]
  ELSE "missing"

(* stat(2) on the components left to walk from entry cur: "ENOENT" when an *)
(* entry is missing, "ENOTDIR" when a component is looked up in something  *)
(* that is not a directory, else the kind of the last entry.               *)
RECURSIVE walk(_, _, _)
walk(fs, cur, segs) ==
  IF entryAt(fs, cur) = "missing" THEN "ENOENT"
  ELSE IF Len(segs) = 0 THEN entryAt(fs, cur)
  ELSE IF entryAt(fs, cur) # "dir" THEN "ENOTDIR"
  ELSE LET seg == Head(segs)
           next == IF seg = <<>> \/ seg = DOT THEN cur
                   ELSE IF seg = DOTDOT
                     THEN (IF Len(cur) = 0 THEN cur ELSE SubSeq(cur, 1, Len(cur) - 1))
                   ELSE Append(cur, seg)
       IN IF entryAt(fs, next) = "missing" THEN "ENOENT"
          ELSE walk(fs, next, Tail(segs))

(* fs.promises.stat(pathname): a relative pathname starts at the working   *)
(* directory; the empty pathname is ENOENT.                                *)
stat(fs, pathname) ==
  IF Len(pathname) = 0 THEN "ENOENT"
  ELSE IF isAbsolute(pathname) THEN walk(fs, <<>>, split(pathname))
  ELSE walk(fs, resolveSegments(<<>>), split(pathname))

(* statOrUndefined whose catch has no test of the error code: every error  *)
(* of stat becomes undefined.                                              *)
statOrUndefined_CatchAll(fs, pathname) ==
  LET s == stat(fs, pathname)
  IN IF s \in {"ENOENT", "ENOTDIR"} THEN "undefined" ELSE s

(* statOrUndefined: ENOENT becomes "undefined"; any other error is thrown  *)
(* again ("throw"); otherwise the Stats, here the kind of the entry.       *)
statOrUndefined(fs, pathname) ==
  LET s == stat(fs, pathname)
  IN IF s = "ENOENT" THEN "undefined"
     ELSE IF s = "ENOTDIR" THEN "throw"
     ELSE s

(* Stats.isFile() and Stats.isDirectory() of a statOrUndefined result *)
(* (s?.isFile() is falsy for undefined).                                   *)
isFile(s) == s \in FileKinds

isDirectory(s) == s = "dir"

----------------------------------------------------------------------------
(* The resolver. A verdict is false (no change), the rewritten specifier,  *)
(* or the rejection of the promise by an error a probe threw.              *)

NoChange == [kind |-> "false", value |-> <<>>]

Rewrite(newSpecifier) == [kind |-> "rewrite", value |-> newSpecifier]

Throw == [kind |-> "throw", value |-> <<>>]

(* No verdict yet: control falls through to the code that follows. *)
FallThrough == [kind |-> "none", value |-> <<>>]

isProcessable(p) == endsWith(p, EXT_JS) \/ endsWith(p, EXT_TS)

(* findPackageDirectory: probe <dir>/node_modules/<packageName>, then the  *)
(* same in the parent, until dirname no longer changes the directory.      *)
RECURSIVE findPackageDirectory(_, _, _)
findPackageDirectory(fs, directoryOfImportingFile, packageName) ==
  LET candidate == join3(directoryOfImportingFile, NODE_MODULES, packageName)
      s == statOrUndefined(fs, candidate)
      parent == dirname(directoryOfImportingFile)
  IN IF s = "throw" THEN [kind |-> "throw", value |-> <<>>]
     ELSE IF s # "undefined" THEN [kind |-> "found", value |-> candidate]
     ELSE IF parent = directoryOfImportingFile THEN [kind |-> "undefined", value |-> <<>>]
     ELSE findPackageDirectory(fs, parent, packageName)

(* loadPackageDotJSON: "object" or "object_exports" for text that decodes, *)
(* 'invalid' for text that does not, undefined when readFile fails         *)
(* (whatever the failure: the outer catch has no condition).               *)
loadPackageDotJSON(fs, packageDirectory) ==
  LET s == stat(fs, join2(packageDirectory, PACKAGE_JSON))
  IN IF s = "json_exports" THEN "object_exports"
     ELSE IF s = "json" THEN "object"
     ELSE IF s = "file" THEN "invalid"
     ELSE "undefined"

(* hasOwnProperty(pjson, 'exports') *)
hasOwnPropertyExports(pjson) == pjson = "object_exports"

(* The "src/" branch with options.relative unset: the probes of            *)
(* <absolutePathnameTo>.js, .ts, .tsx, then the directory.                 *)
srcBranchProbes(fs, absolutePathnameTo, importSpecifier) ==
  LET specifierStat == statOrUndefined(fs, absolutePathnameTo \o EXT_JS)
      specifierStatTs == statOrUndefined(fs, absolutePathnameTo \o EXT_TS)
      specifierStatTsx == statOrUndefined(fs, absolutePathnameTo \o EXT_TSX)
      specifierStatWithoutExt == statOrUndefined(fs, absolutePathnameTo)
  IN IF specifierStat = "throw" THEN Throw
     ELSE IF isFile(specifierStat) THEN Rewrite(importSpecifier \o EXT_JS)
     ELSE IF specifierStatTs = "throw" THEN Throw
     ELSE IF isFile(specifierStatTs) THEN Rewrite(importSpecifier \o EXT_JS)
     ELSE IF specifierStatTsx = "throw" THEN Throw
     ELSE IF isFile(specifierStatTsx) THEN Rewrite(importSpecifier \o EXT_JS)
     ELSE IF specifierStatWithoutExt = "throw" THEN Throw
     ELSE IF isDirectory(specifierStatWithoutExt)
       THEN (IF endsWith(importSpecifier, SLASH)
               THEN Rewrite(importSpecifier \o INDEX_JS)
             ELSE Rewrite(importSpecifier \o SLASH_INDEX_JS))
     ELSE FallThrough

(* srcBranch that does not put './' before a path.relative result that     *)
(* starts with neither './' nor '../'.                                     *)
srcBranch_NoDotSlashPrefix(fs, importSpecifier, fileMetaData, optionsRelative) ==
  LET pathname ==
        IF ~startsWith(fileMetaData.pathname, SRC_SLASH)
           /\ includes(fileMetaData.pathname, SRC_SLASH)
          THEN substringFrom(fileMetaData.pathname,
                             indexOf(fileMetaData.pathname, SRC_SLASH))
        ELSE fileMetaData.pathname
      absolutePathnameTo ==
        substringTo(fileMetaData.absolutePathname,
                    Len(fileMetaData.absolutePathname) - Len(pathname))
          \o importSpecifier
      relSpecifier == relative(dirname(fileMetaData.absolutePathname), absolutePathnameTo)
  IN IF optionsRelative
       THEN (IF endsWith(relSpecifier, EXT_JS) THEN Rewrite(relSpecifier)
             ELSE [kind |-> "none", value |-> relSpecifier])
     ELSE LET r == srcBranchProbes(fs, absolutePathnameTo, importSpecifier)
          IN IF r.kind = "none" THEN [kind |-> "none", value |-> importSpecifier]
             ELSE r

(* The "src/" branch: the verdict it returns, or FallThrough with the      *)
(* specifier the rest of the function goes on with (path.relative's, made  *)
(* to start with './' or '../', when options.relative is set).             *)
srcBranch(fs, importSpecifier, fileMetaData, optionsRelative) ==
  LET pathname ==
        IF ~startsWith(fileMetaData.pathname, SRC_SLASH)
           /\ includes(fileMetaData.pathname, SRC_SLASH)
          THEN substringFrom(fileMetaData.pathname,
                             indexOf(fileMetaData.pathname, SRC_SLASH))
        ELSE fileMetaData.pathname
      absolutePathnameTo ==
        substringTo(fileMetaData.absolutePathname,
                    Len(fileMetaData.absolutePathname) - Len(pathname))
          \o importSpecifier
      rel == relative(dirname(fileMetaData.absolutePathname), absolutePathnameTo)
      relSpecifier ==
        IF ~startsWith(rel, DOT_SLASH) /\ ~startsWith(rel, DOTDOT_SLASH)
          THEN DOT_SLASH \o rel
        ELSE rel
  IN IF optionsRelative
       THEN (IF endsWith(relSpecifier, EXT_JS) THEN Rewrite(relSpecifier)
             ELSE [kind |-> "none", value |-> relSpecifier])
     ELSE LET r == srcBranchProbes(fs, absolutePathnameTo, importSpecifier)
          IN IF r.kind = "none" THEN [kind |-> "none", value |-> importSpecifier]
             ELSE r

(* relativeBranch with the .ts and .tsx probes left out: only an existing   *)
(* .js file gets the extension.                                            *)
relativeBranch_JsProbeOnly(fs, importingFileDirectory, importSpecifier) ==
  LET resolvedSpecifierWithoutExt ==
        IF isAbsolute(importSpecifier) THEN importSpecifier
        ELSE join2(importingFileDirectory, importSpecifier)
      specifierStat == statOrUndefined(fs, resolvedSpecifierWithoutExt \o EXT_JS)
      specifierStatWithoutExt == statOrUndefined(fs, resolvedSpecifierWithoutExt)
  IN IF specifierStat = "throw" THEN Throw
     ELSE IF isFile(specifierStat) THEN Rewrite(importSpecifier \o EXT_JS)
     ELSE IF specifierStatWithoutExt = "throw" THEN Throw
     ELSE IF isDirectory(specifierStatWithoutExt)
       THEN (IF endsWith(importSpecifier, SLASH)
               THEN Rewrite(importSpecifier \o INDEX_JS)
             ELSE Rewrite(importSpecifier \o SLASH_INDEX_JS))
     ELSE NoChange

(* relativeBranch without the test for a trailing '/': the directory       *)
(* rewrite always appends '/index.js'.                                     *)
relativeBranch_DoubledSeparator(fs, importingFileDirectory, importSpecifier) ==
  LET resolvedSpecifierWithoutExt ==
        IF isAbsolute(importSpecifier) THEN importSpecifier
        ELSE join2(importingFileDirectory, importSpecifier)
      specifierStat == statOrUndefined(fs, resolvedSpecifierWithoutExt \o EXT_JS)
      specifierStatTs == statOrUndefined(fs, resolvedSpecifierWithoutExt \o EXT_TS)
      specifierStatTsx == statOrUndefined(fs, resolvedSpecifierWithoutExt \o EXT_TSX)
      specifierStatWithoutExt == statOrUndefined(fs, resolvedSpecifierWithoutExt)
  IN IF specifierStat = "throw" THEN Throw
     ELSE IF isFile(specifierStat) THEN Rewrite(importSpecifier \o EXT_JS)
     ELSE IF specifierStatTs = "throw" THEN Throw
     ELSE IF isFile(specifierStatTs) THEN Rewrite(importSpecifier \o EXT_JS)
     ELSE IF specifierStatTsx = "throw" THEN Throw
     ELSE IF isFile(specifierStatTsx) THEN Rewrite(importSpecifier \o EXT_JS)
     ELSE IF specifierStatWithoutExt = "throw" THEN Throw
     ELSE IF isDirectory(specifierStatWithoutExt)
       THEN Rewrite(importSpecifier \o SLASH_INDEX_JS)
     ELSE NoChange

(* The relative branch: './', '../' and absolute specifiers. *)
relativeBranch(fs, importingFileDirectory, importSpecifier) ==
  LET resolvedSpecifierWithoutExt ==
        IF isAbsolute(importSpecifier) THEN importSpecifier
        ELSE join2(importingFileDirectory, importSpecifier)
      specifierStat == statOrUndefined(fs, resolvedSpecifierWithoutExt \o EXT_JS)
      specifierStatTs == statOrUndefined(fs, resolvedSpecifierWithoutExt \o EXT_TS)
      specifierStatTsx == statOrUndefined(fs, resolvedSpecifierWithoutExt \o EXT_TSX)
      specifierStatWithoutExt == statOrUndefined(fs, resolvedSpecifierWithoutExt)
  IN IF specifierStat = "throw" THEN Throw
     ELSE IF isFile(specifierStat) THEN Rewrite(importSpecifier \o EXT_JS)
     ELSE IF specifierStatTs = "throw" THEN Throw
     ELSE IF isFile(specifierStatTs) THEN Rewrite(importSpecifier \o EXT_JS)
     ELSE IF specifierStatTsx = "throw" THEN Throw
     ELSE IF isFile(specifierStatTsx) THEN Rewrite(importSpecifier \o EXT_JS)
     ELSE IF specifierStatWithoutExt = "throw" THEN Throw
     ELSE IF isDirectory(specifierStatWithoutExt)
       THEN (IF endsWith(importSpecifier, SLASH)
               THEN Rewrite(importSpecifier \o INDEX_JS)
             ELSE Rewrite(importSpecifier \o SLASH_INDEX_JS))
     ELSE NoChange

(* bareSubPathBranch without the test for an "exports" key. *)
bareSubPathBranch_NoExportsCheck(fs, importingFileDirectory, importSpecifier, importSpecifierParts) ==
  LET packageName == Head(importSpecifierParts)
      subPathParts == Tail(importSpecifierParts)
      subPath == joinSlash(<<DOT>> \o subPathParts)
      packageDirectory == findPackageDirectory(fs, importingFileDirectory, packageName)
      resolvedSpecifierPathname == join2(packageDirectory.value, subPath) \o EXT_JS
      specifierStat == statOrUndefined(fs, resolvedSpecifierPathname)
  IN IF packageDirectory.kind = "throw" THEN Throw
     ELSE IF packageDirectory.kind = "undefined" THEN NoChange
     ELSE IF specifierStat = "throw" THEN Throw
     ELSE IF isFile(specifierStat) THEN Rewrite(importSpecifier \o EXT_JS)
     ELSE NoChange

(* bareSubPathBranch that gives up when the manifest is absent or does not *)
(* decode, instead of going on to the probe.                               *)
bareSubPathBranch_ManifestRequired(fs, importingFileDirectory, importSpecifier, importSpecifierParts) ==
  LET packageName == Head(importSpecifierParts)
      subPathParts == Tail(importSpecifierParts)
      subPath == joinSlash(<<DOT>> \o subPathParts)
      packageDirectory == findPackageDirectory(fs, importingFileDirectory, packageName)
      pjson == loadPackageDotJSON(fs, packageDirectory.value)
      resolvedSpecifierPathname == join2(packageDirectory.value, subPath) \o EXT_JS
      specifierStat == statOrUndefined(fs, resolvedSpecifierPathname)
  IN IF packageDirectory.kind = "throw" THEN Throw
     ELSE IF packageDirectory.kind = "undefined" THEN NoChange
     ELSE IF pjson = "undefined" \/ pjson = "invalid" \/ hasOwnPropertyExports(pjson)
       THEN NoChange
     ELSE IF specifierStat = "throw" THEN Throw
     ELSE IF isFile(specifierStat) THEN Rewrite(importSpecifier \o EXT_JS)
     ELSE NoChange

(* bareSubPathBranch that, when the .js probe finds no file, goes on to    *)
(* the directory rewrite of the relative branch.                           *)
bareSubPathBranch_IndexFallback(fs, importingFileDirectory, importSpecifier, importSpecifierParts) ==
  LET packageName == Head(importSpecifierParts)
      subPathParts == Tail(importSpecifierParts)
      subPath == joinSlash(<<DOT>> \o subPathParts)
      packageDirectory == findPackageDirectory(fs, importingFileDirectory, packageName)
      pjson == loadPackageDotJSON(fs, packageDirectory.value)
      resolvedSpecifierPathname == join2(packageDirectory.value, subPath) \o EXT_JS
      specifierStat == statOrUndefined(fs, resolvedSpecifierPathname)
      specifierStatWithoutExt == statOrUndefined(fs, join2(packageDirectory.value, subPath))
  IN IF packageDirectory.kind = "throw" THEN Throw
     ELSE IF packageDirectory.kind = "undefined" THEN NoChange
     ELSE IF pjson # "undefined" /\ pjson # "invalid" /\ hasOwnPropertyExports(pjson)
       THEN NoChange
     ELSE IF specifierStat = "throw" THEN Throw
     ELSE IF isFile(specifierStat) THEN Rewrite(importSpecifier \o EXT_JS)
     ELSE IF specifierStatWithoutExt = "throw" THEN Throw
     ELSE IF isDirectory(specifierStatWithoutExt)
       THEN (IF endsWith(importSpecifier, SLASH)
               THEN Rewrite(importSpecifier \o INDEX_JS)
             ELSE Rewrite(importSpecifier \o SLASH_INDEX_JS))
     ELSE NoChange

(* The bare branch for a specifier with a '/': the package is the first    *)
(* piece of importSpecifier.split('/'), the sub-path the rest.             *)
bareSubPathBranch(fs, importingFileDirectory, importSpecifier, importSpecifierParts) ==
  LET packageName == Head(importSpecifierParts)
      subPathParts == Tail(importSpecifierParts)
      subPath == joinSlash(<<DOT>> \o subPathParts)
      packageDirectory == findPackageDirectory(fs, importingFileDirectory, packageName)
      pjson == loadPackageDotJSON(fs, packageDirectory.value)
      resolvedSpecifierPathname == join2(packageDirectory.value, subPath) \o EXT_JS
      specifierStat == statOrUndefined(fs, resolvedSpecifierPathname)
  IN IF packageDirectory.kind = "throw" THEN Throw
     ELSE IF packageDirectory.kind = "undefined" THEN NoChange
     ELSE IF pjson # "undefined" /\ pjson # "invalid" /\ hasOwnPropertyExports(pjson)
       THEN NoChange
     ELSE IF specifierStat = "throw" THEN Throw
     ELSE IF isFile(specifierStat) THEN Rewrite(importSpecifier \o EXT_JS)
     ELSE NoChange

(* dispatch that also probes a bare specifier without a '/' as if it were  *)
(* relative to the importing file.                                         *)
dispatch_BareAsRelative(fs, importingFileDirectory, importSpecifier, importSpecifierParts) ==
  IF startsWith(importSpecifier, DOT_SLASH)
     \/ startsWith(importSpecifier, DOTDOT_SLASH)
     \/ isAbsolute(importSpecifier)
     \/ ~includes(importSpecifier, SLASH)
    THEN relativeBranch(fs, importingFileDirectory, importSpecifier)
  ELSE IF Len(importSpecifier) > 0 /\ importSpecifier[1] \in WordChars
    THEN (IF includes(importSpecifier, SLASH)
            THEN bareSubPathBranch(fs, importingFileDirectory, importSpecifier,
                                   importSpecifierParts)
          ELSE NoChange)
  ELSE NoChange

(* What follows the "src/" branch: the dispatch on the form of the         *)
(* specifier (importSpecifierParts is the split of the original one).      *)
dispatch(fs, importingFileDirectory, importSpecifier, importSpecifierParts) ==
  IF startsWith(importSpecifier, DOT_SLASH)
     \/ startsWith(importSpecifier, DOTDOT_SLASH)
     \/ isAbsolute(importSpecifier)
    THEN relativeBranch(fs, importingFileDirectory, importSpecifier)
  ELSE IF Len(importSpecifier) > 0 /\ importSpecifier[1] \in WordChars
    THEN (IF includes(importSpecifier, SLASH)
            THEN bareSubPathBranch(fs, importingFileDirectory, importSpecifier,
                                   importSpecifierParts)
          ELSE NoChange)
  ELSE NoChange

shouldAppendJsExtension(fs, importingFilePathname, importSpecifier, fileMetaData, optionsRelative) ==
  IF ~isProcessable(importingFilePathname) THEN NoChange
  ELSE LET importSpecifierParts == split(importSpecifier)
           importingFileDirectory == dirname(importingFilePathname)
           afterSrc ==
             IF startsWith(importSpecifier, SRC_SLASH)
               THEN srcBranch(fs, importSpecifier, fileMetaData, optionsRelative)
             ELSE [kind |-> "none", value |-> importSpecifier]
       IN IF afterSrc.kind # "none" THEN afterSrc
          ELSE dispatch(fs, importingFileDirectory, afterSrc.value, importSpecifierParts)

----------------------------------------------------------------------------
(* The inputs: importing files, specifiers and filesystem contents.        *)

(* The most segments a drawn specifier has after its first piece. *)
MaxSegs == 2

(* The most entries a drawn filesystem declares (their parent directories  *)
(* come with them).                                                        *)
MaxFsEntries == 2

(* How many times a rewritten specifier is resolved again. *)
MaxRewrites == 2

(* metaData.pathname of the importing file, as the caller gave it:         *)
(* 'src/m.js', '/w/src/m.ts' and 'src/m.mjs'.                              *)
ImportingFiles ==
  { <<"s", "r", "c", "/", "m", ".", "j", "s">>,
    <<"/", "w", "/", "s", "r", "c", "/", "m", ".", "t", "s">>,
    <<"s", "r", "c", "/", "m", ".", "m", "j", "s">> }

(* What a specifier starts with: '.', '..', '' (so that it starts with     *)
(* '/'), or a package name: 'a', 'src', the scoped '@s/a'.                 *)
SpecifierHeads ==
  { DOT, DOTDOT, <<>>, <<"a">>, <<"s", "r", "c">>, <<"@", "s", "/", "a">> }

(* The segments that follow: '', 'a', 'a.js'. *)
SegNames == { <<>>, <<"a">>, <<"a", ".", "j", "s">> }

(* Every specifier made of a head and n more segments, joined by '/'. *)
RECURSIVE SpecifiersOfLen(_)
SpecifiersOfLen(n) ==
  IF n = 0 THEN SpecifierHeads
  ELSE { s \o SLASH \o t : s \in SpecifiersOfLen(n - 1), t \in SegNames }

Specifiers == UNION { SpecifiersOfLen(n) : n \in 0..MaxSegs }

(* Names of filesystem entries. *)
N_w == <<"w">>
N_src == <<"s", "r", "c">>
N_a == <<"a">>
N_a_js == <<"a", ".", "j", "s">>
N_a_ts == <<"a", ".", "t", "s">>
N_a_tsx == <<"a", ".", "t", "s", "x">>
N_a_js_js == <<"a", ".", "j", "s", ".", "j", "s">>
N_scope == <<"@", "s">>

(* The importing files themselves, which every filesystem content holds    *)
(* (processFile has read the file it resolves for): /w/src/m.js, m.ts and  *)
(* m.mjs.                                                                  *)
ProjectEntries ==
  { [path |-> <<N_w, N_src, <<"m", ".", "j", "s">>>>, kind |-> "file"],
    [path |-> <<N_w, N_src, <<"m", ".", "t", "s">>>>, kind |-> "file"],
    [path |-> <<N_w, N_src, <<"m", ".", "m", "j", "s">>>>, kind |-> "file"] }

(* The entries a filesystem content is drawn from: beside the importing    *)
(* file in /w/src, in its parent /w, at the root, and in /w/node_modules   *)
(* (the packages 'a', 'src' and '@s/a').                                   *)
FsEntries ==
  { [path |-> <<N_w, N_src, N_a_js>>, kind |-> "file"],
    [path |-> <<N_w, N_src, N_a_ts>>, kind |-> "file"],
    [path |-> <<N_w, N_src, N_a_tsx>>, kind |-> "file"],
    [path |-> <<N_w, N_src, N_a>>, kind |-> "file"],
    [path |-> <<N_w, N_src, N_a>>, kind |-> "dir"],
    [path |-> <<N_w, N_src, N_a_js_js>>, kind |-> "file"],
    [path |-> <<N_w, N_a_ts>>, kind |-> "file"],
    [path |-> <<N_a_ts>>, kind |-> "file"],
    [path |-> <<N_w, NODE_MODULES, N_a>>, kind |-> "file"],
    [path |-> <<N_w, NODE_MODULES, N_a, N_a_js>>, kind |-> "file"],
    [path |-> <<N_w, NODE_MODULES, N_a, PACKAGE_JSON>>, kind |-> "file"],
    [path |-> <<N_w, NODE_MODULES, N_a, PACKAGE_JSON>>, kind |-> "json"],
    [path |-> <<N_w, NODE_MODULES, N_a, PACKAGE_JSON>>, kind |-> "json_exports"],
    [path |-> <<N_w, NODE_MODULES, N_src, N_a_js>>, kind |-> "file"],
    [path |-> <<N_w, NODE_MODULES, N_src, PACKAGE_JSON>>, kind |-> "json_exports"],
    [path |-> <<N_w, NODE_MODULES, N_scope, N_a, N_a_js>>, kind |-> "file"] }

isProperPrefix(p, q) == Len(p) < Len(q) /\ SubSeq(q, 1, Len(p)) = p

(* A set of entries is a tree: one kind per path, and nothing below a file. *)
WellFormed(E) ==
  \A e \in E : \A f \in E :
    /\ (e.path = f.path => e = f)
    /\ (isProperPrefix(e.path, f.path) => e.kind = "dir")

(* The filesystem holding the project, the entries E and the directories   *)
(* above them.                                                             *)
MkFs(E) ==
  LET all == E \cup ProjectEntries
      paths == { e.path : e \in all }
      above == UNION { { SubSeq(e.path, 1, n) : n \in 1..Len(e.path) } : e \in all } \ paths
  IN [ p \in paths \cup above |->
         IF p \in paths THEN (CHOOSE e \in all : e.path = p).kind ELSE "dir" ]

FileSystems ==
  { MkFs(E) : E \in { X \in SUBSET FsEntries : Cardinality(X) <= MaxFsEntries /\ WellFormed(X) } }

----------------------------------------------------------------------------
(* The state: the filesystem, the importing file, options.relative, the    *)
(* specifier under resolution and the verdict on it.                       *)

VARIABLES fs, pathname, optionsRelative, importSpecifier, result, rewrites

(* The state of one run of processFile: the statements of the module as    *)
(* the parser sees them, the text processFile read, the text of the file   *)
(* on disk, the collector's potentialReplacements, the verdict on each     *)
(* (in the order of potentialReplacements), the collector's                *)
(* transformations array, where the run is, the number of writeFile calls  *)
(* and the value processFile returned.                                     *)
VARIABLES statements, sourceCode, fileOnDisk, potentialReplacements, verdicts,
          transformations, pc, nWrites, returned

fileVars == <<statements, sourceCode, fileOnDisk, potentialReplacements, verdicts,
              transformations, pc, nWrites, returned>>

(* The state of one batch run (processOnce): the files the directory       *)
(* listing returned, each with what processing it comes to; options.sort;  *)
(* the task of each file; the files written, the files reported as not     *)
(* parsable and the files whose imports were sorted; where processOnce is. *)
VARIABLES listing, optionsSort, tasks, written, reported, sorted, batchPc

batchVars == <<listing, optionsSort, tasks, written, reported, sorted, batchPc>>

(* The state of one watch session (startWatching): the text of each        *)
(* watched file; the events the watcher has seen and not yet delivered, in *)
(* order; the calls of processFile under way, each with its pathname,      *)
(* where it is and the text it read; the handler's counters; for each      *)
(* file, what its last write by processFile read and what it replaced on   *)
(* disk; whether the runtime ends the process on an unhandled rejection;   *)
(* whether the process is still running; the external edits so far; and    *)
(* what processFile comes to on each file and text, which the filesystem   *)
(* (that no step of a session changes) settles.                            *)
VARIABLES files, events, processing, nDirs, nFiles, nProcessable, lastWrite,
          unhandledRejections, watching, nEdits, comesTo

watchVars == <<files, events, processing, nDirs, nFiles, nProcessable, lastWrite,
               unhandledRejections, watching, nEdits, comesTo>>

resolverVars == <<fs, pathname, optionsRelative, importSpecifier, result, rewrites>>

vars == <<resolverVars, fileVars, batchVars, watchVars>>

(* No batch run is under way. *)
NoBatchRun ==
  /\ listing = <<>>
  /\ optionsSort = FALSE
  /\ tasks = <<>>
  /\ written = {}
  /\ reported = {}
  /\ sorted = {}
  /\ batchPc = "idle"

(* No watch session is under way. *)
NoWatchRun ==
  /\ files = <<>>
  /\ events = <<>>
  /\ processing = <<>>
  /\ nDirs = 0
  /\ nFiles = 0
  /\ nProcessable = 0
  /\ lastWrite = <<>>
  /\ unhandledRejections = "throw"
  /\ watching = FALSE
  /\ nEdits = 0
  /\ comesTo = <<>>

(* processFile has not returned (yet, or at all). *)
NotReturned == [kind |-> "none", value |-> 0]

(* No run of processFile is under way. *)
NoFileRun ==
  /\ statements = <<>>
  /\ sourceCode = <<>>
  /\ fileOnDisk = <<>>
  /\ potentialReplacements = <<>>
  /\ verdicts = <<>>
  /\ transformations = <<>>
  /\ pc = "idle"
  /\ nWrites = 0
  /\ returned = NotReturned

Pending == [kind |-> "pending", value |-> <<>>]

(* processFile's FileMetaData for the importing file. *)
fileMetaData == [pathname |-> pathname, absolutePathname |-> resolve(pathname)]

(* options.relative is read only in the "src/" branch: it is drawn for the *)
(* specifiers that enter it.                                               *)
Init ==
  /\ fs \in FileSystems
  /\ pathname \in ImportingFiles
  /\ importSpecifier \in Specifiers
  /\ optionsRelative \in (IF startsWith(importSpecifier, SRC_SLASH) THEN BOOLEAN ELSE {FALSE})
  /\ result = Pending
  /\ rewrites = 0
  /\ NoFileRun
  /\ NoBatchRun
  /\ NoWatchRun

(* One call of shouldAppendJsExtension as appendJsExtension makes it. *)
Resolve ==
  /\ result.kind = "pending"
  /\ result' = shouldAppendJsExtension(fs, pathname, importSpecifier, fileMetaData,
                                       optionsRelative)
  /\ UNCHANGED <<fs, pathname, optionsRelative, importSpecifier, rewrites, fileVars, batchVars, watchVars>>

(* The rewrite replaces the specifier in the file, and the file is         *)
(* processed again.                                                        *)
Reprocess ==
  /\ result.kind = "rewrite"
  /\ rewrites < MaxRewrites
  /\ importSpecifier' = result.value
  /\ result' = Pending
  /\ rewrites' = rewrites + 1
  /\ UNCHANGED <<fs, pathname, optionsRelative, fileVars, batchVars, watchVars>>

Next == Resolve \/ Reprocess

Spec == Init /\ [][Next]_vars

(* Resolution of bare specifiers. The filesystem contents are drawn from   *)
(* what the locator and the manifest reader look at: the package 'a' in    *)
(* the node_modules of the importing file's directory /w/src, of the       *)
(* working directory /w and of the root; its manifest as a regular file    *)
(* (of each kind) or as a directory, which readFile cannot read; the       *)
(* sub-path a.js, and the sub-path a as a directory holding index.js; and  *)
(* the directory /w/src/a, which a specifier 'src/a' names.                *)
BareFsEntries ==
  { [path |-> <<N_w, NODE_MODULES, N_a>>, kind |-> "file"],
    [path |-> <<N_w, NODE_MODULES, N_a, N_a_js>>, kind |-> "file"],
    [path |-> <<N_w, NODE_MODULES, N_a, N_a, INDEX_JS>>, kind |-> "file"],
    [path |-> <<N_w, NODE_MODULES, N_a, PACKAGE_JSON>>, kind |-> "file"],
    [path |-> <<N_w, NODE_MODULES, N_a, PACKAGE_JSON>>, kind |-> "json"],
    [path |-> <<N_w, NODE_MODULES, N_a, PACKAGE_JSON>>, kind |-> "json_exports"],
    [path |-> <<N_w, NODE_MODULES, N_a, PACKAGE_JSON>>, kind |-> "dir"],
    [path |-> <<NODE_MODULES, N_a, N_a_js>>, kind |-> "file"],
    [path |-> <<N_w, N_src, NODE_MODULES, N_a, N_a_js>>, kind |-> "file"],
    [path |-> <<N_w, N_src, N_a>>, kind |-> "dir"] }

BareFileSystems ==
  { MkFs(E) : E \in { X \in SUBSET BareFsEntries : Cardinality(X) <= MaxFsEntries /\ WellFormed(X) } }

(* The specifiers whose first piece is 'a' or 'src': the piece alone and    *)
(* its sub-paths.                                                          *)
BareSpecifiers == { S \in Specifiers : Head(split(S)) \in {N_a, N_src} }

InitBare ==
  /\ fs \in BareFileSystems
  /\ pathname \in ImportingFiles
  /\ importSpecifier \in BareSpecifiers
  /\ optionsRelative = FALSE
  /\ result = Pending
  /\ rewrites = 0
  /\ NoFileRun
  /\ NoBatchRun
  /\ NoWatchRun

SpecBare == InitBare /\ [][Next]_vars

----------------------------------------------------------------------------
(* One run of processFile on a module: read, parse, collect, resolve       *)
(* concurrently, apply, write.                                             *)

(* The most statements a drawn module has. *)
MaxStatements == 2

DOUBLE_QUOTE == "\""

SINGLE_QUOTE == "'"

IMPORT_KEYWORD == <<"i", "m", "p", "o", "r", "t", " ">>

EXPORT_ALL_FROM == <<"e", "x", "p", "o", "r", "t", " ", "*", " ", "f", "r", "o", "m", " ">>

LOCAL_STATEMENT == <<"l", "e", "t", " ", "x", ";">>

(* The statements of a module: an import declaration and a wildcard        *)
(* re-export, each with a string-literal source in one of the two quote    *)
(* characters, and a statement that has no source.                         *)
Statements ==
  { [kind |-> "import", quote |-> DOUBLE_QUOTE, specifier |-> <<".", "/", "a">>],
    [kind |-> "import", quote |-> SINGLE_QUOTE, specifier |-> <<".", "/", "a">>],
    [kind |-> "import", quote |-> DOUBLE_QUOTE, specifier |-> <<".", "/", "a", "/", "a">>],
    [kind |-> "exportAll", quote |-> SINGLE_QUOTE, specifier |-> <<".", "/", "a", "/", "a">>],
    [kind |-> "import", quote |-> DOUBLE_QUOTE, specifier |-> <<"a">>],
    [kind |-> "local", quote |-> DOUBLE_QUOTE, specifier |-> <<>>] }

RECURSIVE StatementListsOfLen(_)
StatementListsOfLen(n) ==
  IF n = 0 THEN { <<>> }
  ELSE { Append(l, s) : l \in StatementListsOfLen(n - 1), s \in Statements }

StatementLists == UNION { StatementListsOfLen(n) : n \in 0..MaxStatements }

(* What is on disk beside the module /w/src/m.js: a.ts, and a either as a  *)
(* regular file or as the directory of a/a.js.                             *)
ModuleFsEntries ==
  { [path |-> <<N_w, N_src, N_a_ts>>, kind |-> "file"],
    [path |-> <<N_w, N_src, N_a>>, kind |-> "file"],
    [path |-> <<N_w, N_src, N_a, N_a_js>>, kind |-> "file"] }

ModuleFileSystems ==
  { MkFs(E) : E \in { X \in SUBSET ModuleFsEntries : Cardinality(X) <= MaxFsEntries /\ WellFormed(X) } }

(* The text of a statement up to its source literal, and the literal as    *)
(* written (extra.raw).                                                    *)
textBeforeSource(s) == IF s.kind = "import" THEN IMPORT_KEYWORD ELSE EXPORT_ALL_FROM

rawSource(s) == <<s.quote>> \o s.specifier \o <<s.quote>>

hasSource(s) == s.kind \in {"import", "exportAll"}

(* The text of a module: its statements one after the other, on one line. *)
statementText(s) ==
  IF hasSource(s) THEN textBeforeSource(s) \o rawSource(s) \o <<";">>
  ELSE LOCAL_STATEMENT

RECURSIVE moduleText(_)
moduleText(stmts) ==
  IF stmts = <<>> THEN <<>>
  ELSE statementText(Head(stmts)) \o moduleText(Tail(stmts))

(* A Location of the parser: the text is one line, columns count from 0. *)
Location(column) == [line |-> 1, column |-> column]

(* The traversal: a PotentialReplacement for every import or re-export     *)
(* whose source is a string literal written with '"' or "'", in the order  *)
(* of the statements; offset is the column the first statement starts at.  *)
RECURSIVE collectPotentialReplacements(_, _)
collectPotentialReplacements(stmts, offset) ==
  IF stmts = <<>> THEN <<>>
  ELSE LET s == Head(stmts)
           raw == rawSource(s)
           start == offset + Len(textBeforeSource(s))
           quoteCharacter == raw[1]
           rest == collectPotentialReplacements(Tail(stmts), offset + Len(statementText(s)))
       IN IF hasSource(s) /\ quoteCharacter \in {DOUBLE_QUOTE, SINGLE_QUOTE}
            THEN << [start |-> Location(start),
                     end |-> Location(start + Len(raw)),
                     originalValue |-> raw,
                     quoteCharacter |-> quoteCharacter,
                     specifier |-> s.specifier] >> \o rest
          ELSE rest

(* transformationOf that leaves the quote characters out of newValue. *)
transformationOf_NoQuotes(pr, newPath) ==
  [start |-> pr.start,
   end |-> pr.end,
   originalValue |-> pr.originalValue,
   newValue |-> newPath,
   metaData |-> [type |-> "js-import-extension"]]

(* The Transformation pushed for a potential replacement whose verdict is  *)
(* newPath.                                                                *)
transformationOf(pr, newPath) ==
  [start |-> pr.start,
   end |-> pr.end,
   originalValue |-> pr.originalValue,
   newValue |-> <<pr.quoteCharacter>> \o newPath \o <<pr.quoteCharacter>>,
   metaData |-> [type |-> "js-import-extension"]]

(* The applicator on a list sorted by start with non-overlapping spans:    *)
(* the text before the first span, each replacement, and the text between  *)
(* and after the spans. cursor is the column the copied text resumes at.   *)
RECURSIVE applySorted(_, _, _)
applySorted(ts, text, cursor) ==
  IF ts = <<>> THEN SubSeq(text, cursor + 1, Len(text))
  ELSE SubSeq(text, cursor + 1, Head(ts).start.column)
         \o Head(ts).newValue
         \o applySorted(Tail(ts), text, Head(ts).end.column)

isSortedByStart(ts) ==
  \A i \in 1..(Len(ts) - 1) : ts[i].end.column <= ts[i + 1].start.column

startsBefore(a, b) == a.start.column < b.start.column

(* applyTransformations: the rewritten text. The applicator requires its   *)
(* list sorted by start position; given a list that is not, it either      *)
(* orders the list itself or fails on the span that starts before the end  *)
(* of the one before it (an overlap is fatal).                             *)
applyTransformations(ts, text) ==
  IF isSortedByStart(ts)
    THEN { [kind |-> "text", value |-> applySorted(ts, text, 0)] }
  ELSE { [kind |-> "text", value |-> applySorted(SortSeq(ts, startsBefore), text, 0)],
         [kind |-> "fatal", value |-> <<>>] }

(* needsWrite that has processFile write the file on every run. *)
needsWrite_Always(nt) == TRUE

(* processFile writes when there is at least one transformation. *)
needsWrite(nt) == nt > 0

InitFile ==
  /\ fs \in ModuleFileSystems
  /\ pathname \in { p \in ImportingFiles : isProcessable(p) }
  /\ optionsRelative = FALSE
  /\ importSpecifier = <<>>
  /\ result = Pending
  /\ rewrites = 0
  /\ statements \in StatementLists
  /\ fileOnDisk = moduleText(statements)
  /\ sourceCode = <<>>
  /\ potentialReplacements = <<>>
  /\ verdicts = <<>>
  /\ transformations = <<>>
  /\ pc = "start"
  /\ nWrites = 0
  /\ returned = NotReturned
  /\ NoBatchRun
  /\ NoWatchRun

(* processFile up to the await of Promise.all: the file is read and        *)
(* parsed, the tree traversed, and one resolution issued per potential     *)
(* replacement.                                                            *)
StartFile ==
  /\ pc = "start"
  /\ sourceCode' = fileOnDisk
  /\ potentialReplacements' = collectPotentialReplacements(statements, 0)
  /\ verdicts' = [i \in 1..Len(potentialReplacements') |-> Pending]
  /\ pc' = "resolving"
  /\ UNCHANGED <<fs, pathname, optionsRelative, importSpecifier, result, rewrites,
                 statements, fileOnDisk, transformations, nWrites, returned,
                 batchVars, watchVars>>

(* The resolution of potential replacement i completes, whatever the       *)
(* others have done: a rewrite is pushed on transformations; an error      *)
(* rejects Promise.all, and with it appendJsExtension, transformFile and   *)
(* processFile.                                                            *)
Settle(i) ==
  /\ pc = "resolving"
  /\ verdicts[i] = Pending
  /\ LET newPath == shouldAppendJsExtension(fs, pathname, potentialReplacements[i].specifier,
                                            fileMetaData, optionsRelative)
     IN /\ verdicts' = [verdicts EXCEPT ![i] = newPath]
        /\ transformations' =
             IF newPath.kind = "rewrite"
               THEN Append(transformations,
                           transformationOf(potentialReplacements[i], newPath.value))
             ELSE transformations
        /\ pc' = IF newPath.kind = "throw" THEN "rejected" ELSE pc
  /\ UNCHANGED <<fs, pathname, optionsRelative, importSpecifier, result, rewrites,
                 statements, sourceCode, fileOnDisk, potentialReplacements, nWrites,
                 returned,
                 batchVars, watchVars>>

(* Every resolution has completed: Promise.all is fulfilled, and           *)
(* processFile applies the transformations, writes the file if there is    *)
(* any, and returns their number.                                          *)
Commit ==
  /\ pc = "resolving"
  /\ \A i \in 1..Len(verdicts) : verdicts[i] # Pending
  /\ LET nt == Len(transformations)
     IN IF needsWrite(nt)
          THEN \E transformedSource \in applyTransformations(transformations, sourceCode) :
                 IF transformedSource.kind = "fatal"
                   THEN /\ pc' = "rejected"
                        /\ UNCHANGED <<fileOnDisk, nWrites, returned>>
                 ELSE /\ fileOnDisk' = transformedSource.value
                      /\ nWrites' = nWrites + 1
                      /\ returned' = [kind |-> "value", value |-> nt]
                      /\ pc' = "done"
        ELSE /\ returned' = [kind |-> "value", value |-> nt]
             /\ pc' = "done"
             /\ UNCHANGED <<fileOnDisk, nWrites>>
  /\ UNCHANGED <<fs, pathname, optionsRelative, importSpecifier, result, rewrites,
                 statements, sourceCode, potentialReplacements, verdicts, transformations,
                 batchVars, watchVars>>

NextFile ==
  \/ StartFile
  \/ \E i \in 1..Len(verdicts) : Settle(i)
  \/ Commit

SpecFile == InitFile /\ [][NextFile]_vars

----------------------------------------------------------------------------
(* One-shot batch mode: processOnce over the files of a directory.         *)

(* The most files a drawn directory listing has. *)
MaxFiles == 2

(* The files recursivelyReadDirectory can return: a.js, b.ts, c.tsx and    *)
(* d.mjs.                                                                  *)
BatchPathnames ==
  { <<"a", ".", "j", "s">>, <<"b", ".", "t", "s">>,
    <<"c", ".", "t", "s", "x">>, <<"d", ".", "m", "j", "s">> }

(* isProcessable as bin.js imports it. *)
isProcessableOfBin(p) == endsWith(p, EXT_JS) \/ endsWith(p, EXT_TS) \/ endsWith(p, EXT_TSX)

(* What processFile comes to on a file: it returns 0 and writes nothing    *)
(* ("clean"); it writes the file and returns the number of its rewrites    *)
(* ("rewrites"); the parser throws BABEL_PARSER_SYNTAX_ERROR, before any   *)
(* write ("syntaxError"); a read or a probe fails with another error,      *)
(* before any write ("ioError").                                           *)
ProcessFileOutcomes == {"clean", "rewrites", "syntaxError", "ioError"}

(* A directory listing: at most MaxFiles files, each with what processing  *)
(* it comes to (a file that is not processable is never processed).        *)
Listings ==
  UNION { { l \in [S -> ProcessFileOutcomes] :
              \A f \in S : ~isProcessableOfBin(f) => l[f] = "clean" } :
          S \in { X \in SUBSET BatchPathnames : Cardinality(X) <= MaxFiles } }

(* tryAndProcessFile that has no test of the error code: it throws every   *)
(* error of processFile again.                                             *)
tryAndProcessFile_RethrowsAll(outcome) ==
  IF outcome \in {"ioError", "syntaxError"} THEN "rejected" ELSE "fulfilled"

(* tryAndProcessFile: how its promise settles for an outcome of            *)
(* processFile. A syntax error of the parser is caught and logged; any     *)
(* other error is thrown again.                                            *)
tryAndProcessFile(outcome) ==
  IF outcome = "ioError" THEN "rejected" ELSE "fulfilled"

InitBatch ==
  /\ fs = <<>>
  /\ pathname = <<>>
  /\ optionsRelative = FALSE
  /\ importSpecifier = <<>>
  /\ result = Pending
  /\ rewrites = 0
  /\ NoFileRun
  /\ listing \in Listings
  /\ optionsSort \in BOOLEAN
  /\ tasks = <<>>
  /\ written = {}
  /\ reported = {}
  /\ sorted = {}
  /\ batchPc = "start"
  /\ NoWatchRun

(* processOnce up to the joint await: the processable files of the listing *)
(* are mapped to tryAndProcessFile, one task each.                         *)
StartBatch ==
  /\ batchPc = "start"
  /\ tasks' = [f \in { g \in DOMAIN listing : isProcessableOfBin(g) } |-> "running"]
  /\ batchPc' = "awaiting"
  /\ UNCHANGED <<resolverVars, fileVars, watchVars, listing, optionsSort, written, reported, sorted>>

(* The task of file f settles: processFile has written the file if it had  *)
(* rewrites; a syntax error is reported; any other error rejects the task, *)
(* and the first rejected task rejects the joint await (Promise.all) and   *)
(* with it processOnce.                                                    *)
TaskSettles(f) ==
  /\ tasks[f] = "running"
  /\ tasks' = [tasks EXCEPT ![f] = tryAndProcessFile(listing[f])]
  /\ written' = IF listing[f] = "rewrites" THEN written \cup {f} ELSE written
  /\ reported' = IF listing[f] = "syntaxError" /\ tasks'[f] = "fulfilled"
                   THEN reported \cup {f}
                 ELSE reported
  /\ batchPc' = IF tasks'[f] = "rejected" /\ batchPc = "awaiting" THEN "rejected"
                ELSE batchPc
  /\ UNCHANGED <<resolverVars, fileVars, watchVars, listing, optionsSort, sorted>>

(* Every task is fulfilled: the joint await is, and processOnce goes on to *)
(* the sort pass if options.sort is set, else to its final message.        *)
JointAwaitFulfilled ==
  /\ batchPc = "awaiting"
  /\ \A f \in DOMAIN tasks : tasks[f] = "fulfilled"
  /\ batchPc' = IF optionsSort THEN "sorting" ELSE "done"
  /\ UNCHANGED <<resolverVars, fileVars, watchVars, listing, optionsSort, tasks, written, reported,
                 sorted>>

(* The sort pass over the processable files, then the final message. *)
SortPass ==
  /\ batchPc = "sorting"
  /\ sorted' = DOMAIN tasks
  /\ batchPc' = "done"
  /\ UNCHANGED <<resolverVars, fileVars, watchVars, listing, optionsSort, tasks, written, reported>>

NextBatch ==
  \/ StartBatch
  \/ \E f \in DOMAIN tasks : TaskSettles(f)
  \/ JointAwaitFulfilled
  \/ SortPass

(* The event loop runs every continuation that is ready. *)
SpecBatch == InitBatch /\ [][NextBatch]_vars /\ WF_vars(NextBatch)

----------------------------------------------------------------------------
(* Watch mode: startWatching over the directory src.                       *)

(* The most statements a watched module has. *)
MaxWatchStatements == 1

(* The most external edits of watched files during a session. *)
MaxEdits == 1

(* The watched directory and its files as the watcher names them. *)
WatchedDirectory == <<"s", "r", "c">>

WatchedFiles ==
  { <<"s", "r", "c", "/", "m", ".", "j", "s">>,
    <<"s", "r", "c", "/", "m", ".", "t", "s">>,
    <<"s", "r", "c", "/", "m", ".", "m", "j", "s">> }

(* The watched files processFile is called for. *)
ProcessableWatchedFiles == { f \in WatchedFiles : isProcessableOfBin(f) }

(* What is on disk beside the watched modules: a.ts and a.js.js, so that   *)
(* './a' is rewritten to './a.js' and './a.js' to './a.js.js'; and a as a  *)
(* regular file, so that a probe for './a/a' fails with ENOTDIR.           *)
WatchFsEntries ==
  { [path |-> <<N_w, N_src, N_a_ts>>, kind |-> "file"],
    [path |-> <<N_w, N_src, N_a_js_js>>, kind |-> "file"],
    [path |-> <<N_w, N_src, N_a>>, kind |-> "file"] }

WatchFileSystems ==
  { MkFs(E) : E \in { X \in SUBSET WatchFsEntries : Cardinality(X) <= MaxFsEntries } }

(* The statements of a watched module as first found or as edited. *)
WatchStatements ==
  { [kind |-> "import", quote |-> DOUBLE_QUOTE, specifier |-> <<".", "/", "a">>],
    [kind |-> "import", quote |-> DOUBLE_QUOTE, specifier |-> <<".", "/", "a", "/", "a">>] }

RECURSIVE WatchStatementListsOfLen(_)
WatchStatementListsOfLen(n) ==
  IF n = 0 THEN { <<>> }
  ELSE { Append(l, s) : l \in WatchStatementListsOfLen(n - 1), s \in WatchStatements }

(* A text the parser rejects: 'import ;'. *)
UNPARSABLE_TEXT == <<"i", "m", "p", "o", "r", "t", " ", ";">>

(* The texts a watched module is first found with or edited to. *)
WatchTexts ==
  { moduleText(l) : l \in UNION { WatchStatementListsOfLen(n) : n \in 0..MaxWatchStatements } }
    \cup { UNPARSABLE_TEXT }

(* The parser on the text of a module: its statements, or the syntax error *)
(* it throws (ok is FALSE). A statement is 'let x;', or 'import ' or       *)
(* 'export * from ' followed by a string literal and ';'.                  *)
SyntaxError == [ok |-> FALSE, statements |-> <<>>]

RECURSIVE parse(_)
parse(text) ==
  IF text = <<>> THEN [ok |-> TRUE, statements |-> <<>>]
  ELSE IF startsWith(text, LOCAL_STATEMENT)
    THEN LET rest == parse(substringFrom(text, Len(LOCAL_STATEMENT) + 1))
         IN IF rest.ok
              THEN [ok |-> TRUE,
                    statements |-> << [kind |-> "local", quote |-> DOUBLE_QUOTE,
                                       specifier |-> <<>>] >> \o rest.statements]
            ELSE SyntaxError
  ELSE LET kind == IF startsWith(text, IMPORT_KEYWORD) THEN "import"
                   ELSE IF startsWith(text, EXPORT_ALL_FROM) THEN "exportAll"
                   ELSE "none"
           keyword == IF kind = "import" THEN IMPORT_KEYWORD ELSE EXPORT_ALL_FROM
           literal == substringFrom(text, Len(keyword) + 1)
           body == Tail(literal)
           close == indexOf(body, <<literal[1]>>)
       IN IF kind = "none" \/ literal = <<>> THEN SyntaxError
          ELSE IF literal[1] \notin {DOUBLE_QUOTE, SINGLE_QUOTE} \/ close = 0 THEN SyntaxError
          ELSE IF Len(body) < close + 1 \/ body[close + 1] # ";" THEN SyntaxError
          ELSE LET rest == parse(substringFrom(body, close + 2))
               IN IF rest.ok
                    THEN [ok |-> TRUE,
                          statements |-> << [kind |-> kind, quote |-> literal[1],
                                             specifier |-> SubSeq(body, 1, close - 1)] >>
                                           \o rest.statements]
                  ELSE SyntaxError

(* The orders in which the resolutions of the occurrences R can complete. *)
completionOrders(R) ==
  { o \in [1..Cardinality(R) -> R] :
      \A k \in 1..Cardinality(R) : \A l \in 1..Cardinality(R) : k # l => o[k] # o[l] }

(* What processFile does with the transformations of the occurrences of    *)
(* prs whose resolution newPath gives a new path, in every order in which   *)
(* the resolutions complete.                                                *)
writeOutcomes(text, prs, newPath) ==
  LET R == { i \in 1..Len(prs) : newPath[i].kind = "rewrite" }
  IN IF \E i \in 1..Len(prs) : newPath[i].kind = "throw"
       THEN { [kind |-> "rejected", text |-> <<>>] }
     ELSE IF ~needsWrite(Cardinality(R))
       THEN { [kind |-> "returned", text |-> <<>>] }
     ELSE UNION {
            { IF transformedSource.kind = "fatal"
                THEN [kind |-> "rejected", text |-> <<>>]
              ELSE [kind |-> "written", text |-> transformedSource.value] :
              transformedSource \in UNION { applyTransformations(ts, text) :
                ts \in { [k \in 1..Cardinality(R) |->
                            transformationOf(prs[o[k]], newPath[o[k]].value)] } } } :
            o \in completionOrders(R) }

(* The resolutions of the occurrences prs of the module eventPath. *)
resolutionsOf(disk, eventPath, prs) ==
  { [i \in 1..Len(prs) |->
       shouldAppendJsExtension(disk, eventPath, prs[i].specifier, metaData, FALSE)] :
      metaData \in { [pathname |-> eventPath, absolutePathname |-> resolve(eventPath)] } }

(* processFile from the text it read to its end, on the filesystem disk,   *)
(* for every order in which the resolutions complete: the parser throws a  *)
(* syntax error; processFile is rejected when a probe throws or the        *)
(* applicator fails; it returns without a write when there is no           *)
(* transformation; else it writes the transformed text. Each value is      *)
(* bound once, as the code computes it once.                               *)
processFileOutcomes(disk, eventPath, text) ==
  UNION { IF ~ast.ok
            THEN { [kind |-> "syntaxError", text |-> <<>>] }
          ELSE UNION { UNION { writeOutcomes(text, prs, newPath) :
                               newPath \in resolutionsOf(disk, eventPath, prs) } :
                       prs \in { collectPotentialReplacements(ast.statements, 0) } } :
          ast \in { parse(text) } }

(* The texts file f can come to hold on the filesystem disk: the texts T   *)
(* and every text processFile writes from one of them.                     *)
RECURSIVE TextsFrom(_, _, _)
TextsFrom(disk, f, T) ==
  LET newTexts == { o.text : o \in { x \in UNION { processFileOutcomes(disk, f, t) : t \in T } :
                                       x.kind = "written" } }
  IN IF newTexts \subseteq T THEN T ELSE TextsFrom(disk, f, T \cup newTexts)

(* processFileOutcomes for every text each watched file can come to hold   *)
(* on the filesystem disk.                                                 *)
processFileTable(disk) ==
  [k \in UNION { { <<f, t>> : t \in TextsFrom(disk, f, WatchTexts) } :
                   f \in ProcessableWatchedFiles } |->
     processFileOutcomes(disk, k[1], k[2])]

(* A handler that waits for the call under way for a path before it makes  *)
(* another for the same path.                                              *)
callsTryAndProcessFile_OneAtATime(event, eventPath, underWay) ==
  /\ event \in {"add", "change"}
  /\ isProcessableOfBin(eventPath)
  /\ \A i \in 1..Len(underWay) : underWay[i].pathname # eventPath

(* The handler calls tryAndProcessFile for an add or a change of a         *)
(* processable file, whatever calls are under way.                         *)
callsTryAndProcessFile(event, eventPath, underWay) ==
  /\ event \in {"add", "change"}
  /\ isProcessableOfBin(eventPath)

(* What the runtime does with a rejected promise nobody handles: it ends   *)
(* the process ("throw") or only prints a warning ("warn").                *)
UnhandledRejectionModes == {"throw", "warn"}

NoWrite == [done |-> FALSE, read |-> <<>>, replaced |-> <<>>, written |-> <<>>]

RemoveAt(seq, i) == SubSeq(seq, 1, i - 1) \o SubSeq(seq, i + 1, Len(seq))

(* The orders in which the watcher reports the files it finds. *)
ScanOrders ==
  { o \in [1..Cardinality(WatchedFiles) -> WatchedFiles] :
      \A k \in 1..Cardinality(WatchedFiles) : \A l \in 1..Cardinality(WatchedFiles) :
        k # l => o[k] # o[l] }

(* startWatching has set up the watcher, which has scanned the directory:  *)
(* an addDir event for it and an add event for each file are waiting.      *)
InitWatch ==
  /\ fs \in WatchFileSystems
  /\ comesTo = processFileTable(fs)
  /\ pathname = <<>>
  /\ optionsRelative = FALSE
  /\ importSpecifier = <<>>
  /\ result = Pending
  /\ rewrites = 0
  /\ NoFileRun
  /\ NoBatchRun
  /\ files \in [ProcessableWatchedFiles -> WatchTexts]
  /\ \E o \in ScanOrders :
       events = << [event |-> "addDir", eventPath |-> WatchedDirectory] >>
                  \o [k \in 1..Cardinality(WatchedFiles) |->
                        [event |-> "add", eventPath |-> o[k]]]
  /\ processing = <<>>
  /\ nDirs = 0
  /\ nFiles = 0
  /\ nProcessable = 0
  /\ lastWrite = [f \in ProcessableWatchedFiles |-> NoWrite]
  /\ unhandledRejections \in UnhandledRejectionModes
  /\ watching = TRUE
  /\ nEdits = 0

(* The handler of the watcher's events on the next event: the counters,    *)
(* and for an add or a change of a processable file a call of              *)
(* tryAndProcessFile that is not awaited.                                  *)
HandleEvent ==
  /\ watching
  /\ events # <<>>
  /\ LET event == Head(events).event
         eventPath == Head(events).eventPath
     IN /\ nFiles' = IF event = "add" THEN nFiles + 1
                     ELSE IF event = "unlink" THEN nFiles - 1
                     ELSE nFiles
        /\ nProcessable' = IF event = "add" /\ isProcessableOfBin(eventPath)
                             THEN nProcessable + 1
                           ELSE IF event = "unlink" /\ isProcessableOfBin(eventPath)
                             THEN nProcessable - 1
                           ELSE nProcessable
        /\ nDirs' = IF event = "addDir" THEN nDirs + 1
                    ELSE IF event = "unlinkDir" THEN nDirs - 1
                    ELSE nDirs
        /\ processing' = IF callsTryAndProcessFile(event, eventPath, processing)
                           THEN Append(processing, [pathname |-> eventPath,
                                                    pc |-> "reading",
                                                    sourceCode |-> <<>>])
                         ELSE processing
  /\ events' = Tail(events)
  /\ UNCHANGED <<resolverVars, fileVars, batchVars, files, lastWrite, unhandledRejections,
                 watching, nEdits, comesTo>>

(* The readFile of call i of processFile completes. *)
ReadFile(i) ==
  /\ watching
  /\ processing[i].pc = "reading"
  /\ processing' = [processing EXCEPT ![i] = [pathname |-> processing[i].pathname,
                                              pc |-> "resolving",
                                              sourceCode |-> files[processing[i].pathname]]]
  /\ UNCHANGED <<resolverVars, fileVars, batchVars, files, events, nDirs, nFiles,
                 nProcessable, lastWrite, unhandledRejections, watching, nEdits, comesTo>>

(* Call i of processFile comes to its end. A syntax error is caught and    *)
(* logged by tryAndProcessFile. With transformations the file is written,  *)
(* which the watcher sees as a change; with none processFile returns 0. A  *)
(* rejection is thrown again by tryAndProcessFile, whose promise nobody    *)
(* handles: the runtime ends the process or goes on.                       *)
FinishFile(i) ==
  /\ watching
  /\ processing[i].pc = "resolving"
  /\ LET eventPath == processing[i].pathname
     IN \E outcome \in comesTo[<<eventPath, processing[i].sourceCode>>] :
          IF outcome.kind = "written"
            THEN /\ files' = [files EXCEPT ![eventPath] = outcome.text]
                 /\ lastWrite' = [lastWrite EXCEPT ![eventPath] =
                                    [done |-> TRUE,
                                     read |-> processing[i].sourceCode,
                                     replaced |-> files[eventPath],
                                     written |-> outcome.text]]
                 /\ events' = Append(events, [event |-> "change", eventPath |-> eventPath])
                 /\ processing' = RemoveAt(processing, i)
                 /\ UNCHANGED watching
          ELSE IF outcome.kind = "rejected" /\ unhandledRejections = "throw"
            THEN /\ watching' = FALSE
                 /\ events' = <<>>
                 /\ processing' = <<>>
                 /\ UNCHANGED <<files, lastWrite>>
          ELSE /\ processing' = RemoveAt(processing, i)
               /\ UNCHANGED <<files, lastWrite, events, watching>>
  /\ UNCHANGED <<resolverVars, fileVars, batchVars, nDirs, nFiles, nProcessable,
                 unhandledRejections, nEdits, comesTo>>

(* An external edit: another program writes watched file f, which the      *)
(* watcher sees as a change.                                               *)
ExternalEdit(f, text) ==
  /\ watching
  /\ nEdits < MaxEdits
  /\ text # files[f]
  /\ files' = [files EXCEPT ![f] = text]
  /\ events' = Append(events, [event |-> "change", eventPath |-> f])
  /\ nEdits' = nEdits + 1
  /\ UNCHANGED <<resolverVars, fileVars, batchVars, processing, nDirs, nFiles,
                 nProcessable, lastWrite, unhandledRejections, watching, comesTo>>

(* What the event loop of the process does. *)
EventLoop ==
  \/ HandleEvent
  \/ \E i \in 1..Len(processing) : ReadFile(i)
  \/ \E i \in 1..Len(processing) : FinishFile(i)

NextWatch ==
  \/ EventLoop
  \/ \E f \in ProcessableWatchedFiles : \E text \in WatchTexts : ExternalEdit(f, text)

(* The event loop runs every continuation that is ready; nothing makes     *)
(* another program edit a file.                                            *)
SpecWatch == InitWatch /\ [][NextWatch]_vars /\ WF_vars(EventLoop)

----------------------------------------------------------------------------
(* The vocabulary of the claims. *)

Resolved == result.kind \in {"false", "rewrite", "throw"}

(* The importing file is one the tool processes. *)
CandidateFile == isProcessable(pathname)

(* A relative ('./x', '../x') or absolute ('/x') specifier. *)
IsRelativeOrAbsolute(S) ==
  startsWith(S, DOT_SLASH) \/ startsWith(S, DOTDOT_SLASH) \/ startsWith(S, SLASH)

(* A bare specifier: not relative or absolute, starting with a word        *)
(* character; it has a sub-path when it holds a '/'.                       *)
IsBare(S) == ~IsRelativeOrAbsolute(S) /\ Len(S) > 0 /\ S[1] \in WordChars

IsBareSubPath(S) == IsBare(S) /\ includes(S, SLASH)

(* The target of a relative or absolute specifier: the importing file's    *)
(* directory joined with it, or the specifier itself when absolute.        *)
TargetOf(S) == IF isAbsolute(S) THEN S ELSE join2(dirname(pathname), S)

ExistsAsFile(p) == stat(fs, p) \in FileKinds

ExistsAsDirectory(p) == stat(fs, p) = "dir"

(* A probe of p fails with an error other than not-found. *)
ProbeFails(p) == stat(fs, p) = "ENOTDIR"

(* One of <target>.js, <target>.ts, <target>.tsx is a regular file. *)
SiblingExists(S) ==
  \/ ExistsAsFile(TargetOf(S) \o EXT_JS)
  \/ ExistsAsFile(TargetOf(S) \o EXT_TS)
  \/ ExistsAsFile(TargetOf(S) \o EXT_TSX)

(* The package name and the sub-path of a bare specifier: the first        *)
(* segment and what follows its '/'.                                       *)
PackageOf(S) == Head(split(S))

SubPathOf(S) == joinSlash(Tail(split(S)))

(* The same under the scoped-name rule: '@scope/name' and the rest. *)
ScopedPackageOf(S) == joinSlash(SubSeq(split(S), 1, 2))

ScopedSubPathOf(S) == joinSlash(SubSeq(split(S), 3, Len(split(S))))

(* The directory the locator finds for package P from the importing        *)
(* file's directory.                                                       *)
Located(P) == findPackageDirectory(fs, dirname(pathname), P)

(* The manifest of package directory d declares an exports map. *)
DeclaresExports(d) == stat(fs, d \o SLASH \o PACKAGE_JSON) = "json_exports"

(* The source root of the "src/" alias: the directory that holds src. *)
SourceRoot ==
  LET a == resolve(pathname)
      i == indexOf(a, SRC_SLASH)
  IN IF i = 0 THEN <<>> ELSE SubSeq(a, 1, i - 1)

(* R names <packageDirectory>/<rest> in the located package directory of   *)
(* its first segment, and that is a regular file.                          *)
NamesPackageFile(R) ==
  /\ Located(PackageOf(R)).kind = "found"
  /\ ExistsAsFile(Located(PackageOf(R)).value \o SLASH \o SubPathOf(R))

(* The file a rewritten specifier R names exists as a regular file: seen   *)
(* from the importing file's directory for a relative or absolute R, from  *)
(* the source root or inside the located package for an R beginning with   *)
(* "src/", inside the located package for any other bare R.                *)
RewriteTargetExists(R) ==
  IF IsRelativeOrAbsolute(R) THEN ExistsAsFile(TargetOf(R))
  ELSE IF startsWith(R, SRC_SLASH)
    THEN ExistsAsFile(SourceRoot \o R) \/ NamesPackageFile(R)
  ELSE NamesPackageFile(R)

----------------------------------------------------------------------------
(* C1: whenever resolve returns a rewritten specifier, the file the        *)
(* rewritten specifier names exists as a regular file on disk.             *)
C1_RewriteTargetExists ==
  result.kind = "rewrite" => RewriteTargetExists(result.value)

C4_DotJsFileUnchanged ==
  ( /\ Resolved
    /\ (startsWith(importSpecifier, DOT_SLASH) \/ startsWith(importSpecifier, DOTDOT_SLASH))
    /\ endsWith(importSpecifier, EXT_JS)
    /\ ExistsAsFile(TargetOf(importSpecifier)) )
  => result = NoChange

(* The verdict C5 names for a directory target: S + "/index.js", or        *)
(* S + "index.js" when S ends in '/'.                                      *)
IndexRewrite(S) ==
  IF endsWith(S, SLASH) THEN Rewrite(S \o INDEX_JS) ELSE Rewrite(S \o SLASH_INDEX_JS)

(* C5 as stated: for every relative or absolute specifier S with no .js,   *)
(* .ts or .tsx sibling file, resolve returns the index rewrite when the    *)
(* target is a directory and NoChange when it is not.                      *)
C5_Original ==
  ( /\ Resolved
    /\ IsRelativeOrAbsolute(importSpecifier)
    /\ ~SiblingExists(importSpecifier) )
  => result = (IF ExistsAsDirectory(TargetOf(importSpecifier))
                 THEN IndexRewrite(importSpecifier)
               ELSE NoChange)

(* A probe of the relative branch fails with an error other than           *)
(* not-found: a component of the probed path is a regular file.            *)
RelativeProbeFails(S) ==
  \/ ProbeFails(TargetOf(S) \o EXT_JS)
  \/ ProbeFails(TargetOf(S) \o EXT_TS)
  \/ ProbeFails(TargetOf(S) \o EXT_TSX)
  \/ ProbeFails(TargetOf(S))

(* C5 amended: for a candidate importing file and every relative or        *)
(* absolute specifier S with no .js, .ts or .tsx sibling file, resolve     *)
(* returns the index rewrite when the target is a directory; when it is    *)
(* not, resolve returns NoChange, unless a probe fails with an error other *)
(* than not-found, which resolve propagates.                               *)
C5_DirectoryFallback ==
  ( /\ Resolved
    /\ CandidateFile
    /\ IsRelativeOrAbsolute(importSpecifier)
    /\ ~SiblingExists(importSpecifier) )
  => result = (IF ExistsAsDirectory(TargetOf(importSpecifier))
                 THEN IndexRewrite(importSpecifier)
               ELSE IF RelativeProbeFails(importSpecifier) THEN Throw
               ELSE NoChange)

(* C5 witness: a specifier ending in '/' names a directory and is          *)
(* rewritten to S + "index.js".                                            *)
C5_Witness ==
  /\ Resolved
  /\ CandidateFile
  /\ startsWith(importSpecifier, <<".", "/", "a">>)
  /\ ~SiblingExists(importSpecifier)
  /\ ExistsAsDirectory(TargetOf(importSpecifier))
  /\ endsWith(importSpecifier, SLASH)
  /\ result = Rewrite(importSpecifier \o INDEX_JS)

(* The located package directory of bare sub-path specifier S declares an  *)
(* exports map.                                                            *)
LocatedWithExports(S) ==
  /\ Located(PackageOf(S)).kind = "found"
  /\ DeclaresExports(Located(PackageOf(S)).value)

(* C6 as stated: every bare sub-path specifier whose located package       *)
(* directory declares an exports map yields NoChange, one whose package    *)
(* name is src included.                                                   *)
C6_Original ==
  ( /\ Resolved
    /\ IsBareSubPath(importSpecifier)
    /\ LocatedWithExports(importSpecifier) )
  => result = NoChange

(* C6 amended: every bare sub-path specifier that does not begin with the  *)
(* source-root prefix "src/" and whose located package directory declares  *)
(* an exports map yields NoChange, even if <package>/<subpath>.js exists.  *)
C6_ExportsMapNoChange ==
  ( /\ Resolved
    /\ IsBareSubPath(importSpecifier)
    /\ ~startsWith(importSpecifier, SRC_SLASH)
    /\ LocatedWithExports(importSpecifier) )
  => result = NoChange

(* C6 witness: the package declares an exports map, <package>/<subpath>.js *)
(* is a file, and the verdict is NoChange.                                 *)
C6_Witness ==
  /\ Resolved
  /\ CandidateFile
  /\ IsBareSubPath(importSpecifier)
  /\ ~startsWith(importSpecifier, SRC_SLASH)
  /\ LocatedWithExports(importSpecifier)
  /\ ExistsAsFile(Located(PackageOf(importSpecifier)).value \o SLASH
                    \o SubPathOf(importSpecifier) \o EXT_JS)
  /\ result = NoChange

(* C7: a bare single-segment specifier (no '/', starting with a word       *)
(* character) always yields NoChange.                                      *)
C7_BareSingleSegment ==
  ( /\ Resolved
    /\ IsBare(importSpecifier)
    /\ ~includes(importSpecifier, SLASH) )
  => result = NoChange

(* C7 witness: the bare specifier 'a' is resolved from a candidate file    *)
(* beside which a.js is a file.                                            *)
C7_Witness ==
  /\ Resolved
  /\ CandidateFile
  /\ importSpecifier = <<"a">>
  /\ ExistsAsFile(join2(dirname(pathname), importSpecifier) \o EXT_JS)
  /\ result = NoChange

(* The package of unscoped bare sub-path specifier S is located and its    *)
(* manifest declares no exports map.                                       *)
LocatedWithoutExports(S) ==
  /\ Located(PackageOf(S)).kind = "found"
  /\ ~DeclaresExports(Located(PackageOf(S)).value)

(* <packageDirectory>/<sub>.js for the located package of S. *)
SubPathJs(S) == Located(PackageOf(S)).value \o SLASH \o SubPathOf(S) \o EXT_JS

C9_ScopedNameRule ==
  ( /\ Resolved
    /\ CandidateFile
    /\ startsWith(importSpecifier, <<"@">>)
    /\ Len(split(importSpecifier)) >= 3
    /\ Located(ScopedPackageOf(importSpecifier)).kind = "found"
    /\ ~DeclaresExports(Located(ScopedPackageOf(importSpecifier)).value)
    /\ ExistsAsFile(Located(ScopedPackageOf(importSpecifier)).value \o SLASH
                      \o ScopedSubPathOf(importSpecifier) \o EXT_JS) )
  => result = Rewrite(importSpecifier \o EXT_JS)

(* C10: rewriting is idempotent: a specifier that is itself the rewrite    *)
(* resolve returned is not rewritten again when resolved on the same       *)
(* filesystem (no double extension such as './foo.js.js').                 *)
C10_Idempotent ==
  (Resolved /\ rewrites >= 1) => result.kind # "rewrite"

(* <packageDirectory>/<sub> for the located package of S. *)
SubPathDir(S) == Located(PackageOf(S)).value \o SLASH \o SubPathOf(S)

ManifestReadFails(d) == stat(fs, d \o SLASH \o PACKAGE_JSON) \in {"dir", "ENOTDIR"}

(* C16: a manifest read that fails with an I/O error other than not-found  *)
(* is propagated from resolve as a failure; it is never treated as an      *)
(* absent manifest that lets resolve go on to probe and rewrite.           *)
C16_ManifestErrorPropagates ==
  ( /\ Resolved
    /\ CandidateFile
    /\ IsBareSubPath(importSpecifier)
    /\ ~startsWith(importSpecifier, SRC_SLASH)
    /\ Located(PackageOf(importSpecifier)).kind = "found"
    /\ ManifestReadFails(Located(PackageOf(importSpecifier)).value) )
  => result = Throw

(* The directories the locator is to visit from directory D: D resolved    *)
(* against the working directory, and every ancestor up to the root, each  *)
(* as its sequence of segments.                                            *)
AncestorsOf(D) ==
  { SubSeq(resolveSegments(D), 1, n) : n \in 0..Len(resolveSegments(D)) }

(* <dir>/node_modules/<P> for the directory with segments d. *)
CandidateAt(d, P) == SLASH \o joinSlash(d \o <<NODE_MODULES, P>>)

(* The probe of <dir>/node_modules/<P> finds something. *)
HasPackage(d, P) == stat(fs, CandidateAt(d, P)) \in FileKinds \cup {"dir"}

(* C14: the locator, started at the importing file's directory D for       *)
(* package P, returns the candidate of the nearest ancestor of D (D        *)
(* included) whose node_modules has P, and NotFound exactly when no        *)
(* ancestor up to the filesystem root has it.                              *)
C14_LocatorNearestAncestor ==
  ( /\ Resolved
    /\ CandidateFile
    /\ IsBareSubPath(importSpecifier)
    /\ ~startsWith(importSpecifier, SRC_SLASH) )
  => LET P == PackageOf(importSpecifier)
         D == dirname(pathname)
         r == findPackageDirectory(fs, D, P)
     IN /\ r.kind \in {"found", "undefined"}
        /\ (r.kind = "undefined") <=> (\A d \in AncestorsOf(D) : ~HasPackage(d, P))
        /\ r.kind = "found" =>
             \E d \in AncestorsOf(D) :
               /\ HasPackage(d, P)
               /\ \A c \in AncestorsOf(D) : Len(c) > Len(d) => ~HasPackage(c, P)
               /\ resolve(r.value) = CandidateAt(d, P)

(* What a specifier beginning with "src/" names: <root>/<specifier>. *)
SrcTarget == SourceRoot \o importSpecifier

(* <root>/<specifier>.js, .ts or .tsx is a regular file. *)
SrcSiblingExists ==
  \/ ExistsAsFile(SrcTarget \o EXT_JS)
  \/ ExistsAsFile(SrcTarget \o EXT_TS)
  \/ ExistsAsFile(SrcTarget \o EXT_TSX)

(* The suffix of the rewrite: ".js" for a sibling file, "/index.js" for a  *)
(* directory ("index.js" when the specifier already ends in '/').          *)
SrcSuffix ==
  IF SrcSiblingExists THEN EXT_JS
  ELSE IF endsWith(importSpecifier, SLASH) THEN INDEX_JS
  ELSE SLASH_INDEX_JS

(* R starts with './' or '../' and, seen from the importing file's         *)
(* directory, denotes the file p.                                          *)
DenotesFromImporter(R, p) ==
  /\ startsWith(R, DOT_SLASH) \/ startsWith(R, DOTDOT_SLASH)
  /\ resolve(join2(dirname(resolve(pathname)), R)) = resolve(p)

(* The form of the rewrite in each mode: the specifier with its "src/"     *)
(* prefix plus the suffix, or a relative specifier denoting the same       *)
(* target plus the suffix.                                                 *)
SrcRewriteForm ==
  /\ result.kind = "rewrite"
  /\ IF optionsRelative
       THEN DenotesFromImporter(result.value, SrcTarget \o SrcSuffix)
     ELSE result.value = importSpecifier \o SrcSuffix

HasEmptySegment(S) == \E k \in 1..Len(split(S)) : split(S)[k] = <<>>

CollectorReturned ==
  /\ pc \in {"resolving", "done", "rejected"}
  /\ \A i \in 1..Len(verdicts) : verdicts[i].kind \in {"false", "rewrite"}

(* The potential replacements whose verdict is a rewrite. *)
Rewritten == { i \in 1..Len(verdicts) : verdicts[i].kind = "rewrite" }

(* C11: the list of transformations the collector returns for one file is  *)
(* in source order of the specifier occurrences, for every order in which  *)
(* the concurrently issued resolutions complete.                           *)
C11_SourceOrder ==
  CollectorReturned =>
    \A k \in 1..Len(transformations) : \A l \in 1..Len(transformations) :
      k < l => transformations[k].start.column < transformations[l].start.column

(* The text of the module with the specifier of every rewritten occurrence *)
(* replaced by its rewrite, each statement otherwise as it was; vs are the *)
(* verdicts on the statements that have a source, in order.                *)
RECURSIVE rewrittenText(_, _)
rewrittenText(stmts, vs) ==
  IF stmts = <<>> THEN <<>>
  ELSE LET s == Head(stmts)
       IN IF hasSource(s)
            THEN statementText(IF Head(vs).kind = "rewrite"
                                 THEN [s EXCEPT !.specifier = Head(vs).value]
                               ELSE s)
                   \o rewrittenText(Tail(stmts), Tail(vs))
          ELSE statementText(s) \o rewrittenText(Tail(stmts), vs)

(* Transformation tr is the one of potential replacement i: its span is    *)
(* the span of the literal in the text read, its new text the rewrite in   *)
(* the literal's quote character.                                          *)
IsTransformationOf(tr, i) ==
  LET lit == SubSeq(sourceCode, tr.start.column + 1, tr.end.column)
  IN /\ tr.start = potentialReplacements[i].start
     /\ tr.end = potentialReplacements[i].end
     /\ lit = <<lit[1]>> \o potentialReplacements[i].specifier \o <<lit[1]>>
     /\ lit[1] \in {DOUBLE_QUOTE, SINGLE_QUOTE}
     /\ tr.newValue = <<lit[1]>> \o verdicts[i].value \o <<lit[1]>>

C13_WriteOnceAfterResolutions ==
  /\ nWrites <= 1
  /\ nWrites = 1 => /\ pc = "done"
                    /\ \A i \in 1..Len(verdicts) : verdicts[i] # Pending
  /\ pc = "done" =>
       /\ returned = [kind |-> "value", value |-> Len(transformations)]
       /\ nWrites = (IF Len(transformations) > 0 THEN 1 ELSE 0)
       /\ Len(transformations) = 0 => fileOnDisk = sourceCode
  /\ pc \in {"resolving", "rejected"} => /\ returned = NotReturned
                                         /\ fileOnDisk = sourceCode

(* C13 witness: processFile has returned 0 for a module with an import     *)
(* that needed no rewrite, and has not written.                            *)
C13_Witness ==
  /\ pc = "done"
  /\ Len(verdicts) >= 1
  /\ returned = [kind |-> "value", value |-> 0]
  /\ nWrites = 0
  /\ fileOnDisk = sourceCode

(* The first probe of the resolution of potential replacement i fails with *)
(* an error other than not-found.                                          *)
OccurrenceProbeFails(i) ==
  /\ IsRelativeOrAbsolute(potentialReplacements[i].specifier)
  /\ ProbeFails(TargetOf(potentialReplacements[i].specifier) \o EXT_JS)

(* C15: a probe that finds nothing is a normal result; any other error of  *)
(* a probe rejects the resolution, the collector and processFile: no       *)
(* transformation list is returned and the file is not written.            *)
C15_ProbeErrorPropagates ==
  \A i \in 1..Len(verdicts) :
    verdicts[i] # Pending =>
      /\ (verdicts[i] = Throw) <=> OccurrenceProbeFails(i)
      /\ OccurrenceProbeFails(i) =>
           /\ pc = "rejected"
           /\ nWrites = 0
           /\ returned = NotReturned
           /\ fileOnDisk = sourceCode

(* C15 witness: one resolution has pushed a rewrite, another has failed on *)
(* a probe with ENOTDIR; processFile is rejected and nothing is written.   *)
C15_Witness ==
  /\ pc = "rejected"
  /\ Len(transformations) = 1
  /\ \E i \in 1..Len(verdicts) : verdicts[i] = Throw /\ OccurrenceProbeFails(i)
  /\ nWrites = 0
  /\ fileOnDisk = sourceCode

(* No file of the listing comes to an error other than a syntax error. *)
NoIoErrorListed == \A f \in DOMAIN listing : listing[f] # "ioError"

(* The batch run has reached its conclusion with every processable file    *)
(* processed: written if it had rewrites, reported and not written if it   *)
(* did not parse; and sorted if options.sort is set.                       *)
BatchConcluded ==
  /\ batchPc = "done"
  /\ \A f \in DOMAIN tasks :
       /\ tasks[f] = "fulfilled"
       /\ f \in written <=> listing[f] = "rewrites"
       /\ f \in reported <=> listing[f] = "syntaxError"
  /\ sorted = (IF optionsSort THEN DOMAIN tasks ELSE {})

C18_IoFailureDoesNotAbort ==
  (\E f \in DOMAIN tasks : tasks[f] = "rejected") => batchPc # "rejected"

----------------------------------------------------------------------------
(* Watch mode. *)

(* Processing watched file f as it is on disk would write it. *)
WouldWrite(f) == \E outcome \in comesTo[<<f, files[f]>>] : outcome.kind = "written"

(* No event waits, no call of processFile is under way, and processing any *)
(* watched file would write nothing.                                       *)
Quiescent ==
  /\ events = <<>>
  /\ processing = <<>>
  /\ \A f \in ProcessableWatchedFiles : ~WouldWrite(f)

(* C21: in watch mode, once the external edits have ended, the changes the *)
(* tool's own writes cause come to an end: each file is written finitely   *)
(* many times and the session comes to stay in a quiescent state, in which *)
(* processing any watched file has no transformation to apply and writes   *)
(* nothing (a file that does not parse or whose resolution fails has none  *)
(* either).                                                                *)
C21_Quiescence == <>[]Quiescent

(* The handler has taken an add or a change of a processable file off the  *)
(* waiting events.                                                         *)
HandlesProcessable ==
  /\ watching
  /\ watching'
  /\ events # <<>>
  /\ events' = Tail(events)
  /\ Head(events).event \in {"add", "change"}
  /\ isProcessableOfBin(Head(events).eventPath)

(* The last write of f by processFile replaced a text that was neither the *)
(* one its call had read nor the one it wrote, and nothing has been        *)
(* written since: the text it replaced is lost.                            *)
LostUpdate(f) ==
  /\ lastWrite[f].done
  /\ lastWrite[f].replaced # lastWrite[f].read
  /\ lastWrite[f].replaced # lastWrite[f].written
  /\ files[f] = lastWrite[f].written

(* C22: in watch mode the calls of processFile for one path are not        *)
(* serialized: the handler starts a call for every add or change of a      *)
(* processable file, whatever calls are under way for that path, and what  *)
(* a call writes is computed from the text it read, whatever is on disk    *)
(* when it writes.                                                         *)
C22_NotSerialized ==
  /\ [][HandlesProcessable =>
          processing' = Append(processing, [pathname |-> Head(events).eventPath,
                                            pc |-> "reading",
                                            sourceCode |-> <<>>])]_vars
  /\ [](\A f \in ProcessableWatchedFiles :
          lastWrite[f].done =>
            /\ lastWrite[f].read \in { k[2] : k \in { x \in DOMAIN comesTo : x[1] = f } }
            /\ [kind |-> "written", text |-> lastWrite[f].written]
                  \in comesTo[<<f, lastWrite[f].read>>])

(* C22 witness: a call of processFile has overwritten a text that another  *)
(* call for the same path wrote after the first had read the file; the     *)
(* later text is lost.                                                     *)
C22_Witness ==
  \E f \in ProcessableWatchedFiles :
    /\ LostUpdate(f)
    /\ lastWrite[f].replaced \notin WatchTexts

====
